---- MODULE Spec2Model ----
(***************************************************************************)
(* Model of the compilation orchestrator of tinywasm/gobuild.              *)
(*                                                                         *)
(* One GoBuild instance (gobuild.go) is used by several callers.  Every    *)
(* accepted request (CompileProgram or CompileToMemory) is a job j in      *)
(* 1..MaxJobs, numbered in the order in which the requests acquire h.mu.   *)
(* The thread that serves job j (the caller, or the goroutine of the       *)
(* asynchronous path) is at position pc[j]:                                *)
(*    "idle"        not requested yet                                      *)
(*    "start"       registered as h.active, process not started            *)
(*    "wait"        blocked in CombinedOutput / Run                        *)
(*    "callback"    compileSync returned, callback not called yet          *)
(*    "incallback"  inside h.config.Callback                               *)
(*    "cleanup"     before the clean-up section                            *)
(*    "check"       CompileToMemory after the clean-up section             *)
(*    "done"        returned / goroutine ended                             *)
(* The external compiler processes, the deadline timers of the jobs'       *)
(* contexts and the callers of Cancel are separate agents.                 *)
(*                                                                         *)
(* Every section of code that runs between h.mu.Lock() and h.mu.Unlock()   *)
(* is one action: the sections never block and h.mu serialises them.       *)
(* SpecLock alone follows h.mu itself, with the taking and the release of  *)
(* the guard as separate steps.                                            *)
(*                                                                         *)
(* A byte slice (a file's content, a captured stdout buffer) is modelled   *)
(* by the number of the job whose process wrote it; 0 is nil / empty /     *)
(* no such file.                                                           *)
(*                                                                         *)
(* Spec is the orchestrator on a plain Config; SpecLive is Spec with the   *)
(* fairness of the threads, the timers and the kill.  The operations that  *)
(* do not depend on the jobs have specifications of their own, which draw  *)
(* their inputs from bounded sets and leave the jobs alone: SpecConfig     *)
(* (New and the launch of a process), SpecArgs (buildArguments), SpecSize  *)
(* (BinarySize) and SpecNames (the names of the temp artifacts).           *)
(***************************************************************************)
EXTENDS Integers, Naturals, FiniteSets, Sequences, TLC

\* Number of compilation requests the callers issue.
MaxJobs == 2

Jobs == 1..MaxJobs

\* The threads that take h.mu: thread j in Jobs serves job j (and runs its
\* callback); thread 0 stands for the callers outside the jobs.
Threads == 0..MaxJobs

VARIABLES
    callback,     \* h.config.Callback != nil (fixed at construction)
    active,       \* h.active: 0 = nil, j = the compilation of job j
    nJobs,        \* number of requests accepted so far
    kind,         \* kind[j]: "none", "disk" (CompileProgram), "memory"
    pc,           \* pc[j]: position of the thread serving job j
    proc,         \* proc[j]: the external process of job j
    ctxErr,       \* ctxErr[j]: ctx.Err() of job j's context
    cancelCalls,  \* cancelCalls[j]: times comp.cancel() has been invoked
    ctxAtExit,    \* ctxErr[j] at the instant the process of j ended
    out,          \* out[j]: bytes the process of j left at its destination
    finalFile,    \* content of the file at FinalOutputPath()
    result,       \* result[j]: terminal result of the job
    ret,          \* ret[j]: what the call returned to its caller
    cbCount,      \* cbCount[j]: invocations of the callback for job j
    cbArg,        \* cbArg[j]: argument the callback received
    cancelRet,    \* value returned by the latest Cancel call
    errOut,       \* errOut[j]: process output carried by compileSync's error
    config,       \* the Config behind h.config
    call,         \* the latest call of New, of a process launch, of
                  \* buildArguments or of BinarySize, with what it produced
    now,          \* the reading of the wall clock (time.Now().UnixNano())
    tempFile,     \* comp.tempFile of the CompileProgram requests, in order
    mu,           \* the threads that hold h.mu for writing (at most one)
    readers,      \* the threads that hold h.mu for reading
    section       \* section[t]: the locked section thread t is inside

\* The variables of the jobs and of the orchestrator.
jvars == <<callback, active, nJobs, kind, pc, proc, ctxErr, cancelCalls,
           ctxAtExit, out, finalFile, result, ret, cbCount, cbArg, cancelRet,
           errOut>>

\* The configuration, the calls of the pure operations and the clock.
cvars == <<config, call, now, tempFile>>

\* The mutual-exclusion guard h.mu, followed in SpecLock only.
lvars == <<mu, readers, section>>

vars == <<jvars, cvars, lvars>>

Errors == {"buildErr", "timeoutErr", "renameErr"}

\* A job exists (its compilation struct and context have been created).
Created(j) == pc[j] # "idle"

\* Asynchronous disk job: CompileProgram with a callback configured.
IsAsync(j) == kind[j] = "disk" /\ callback

\* The external process of job j has not ended (or not been started yet).
Unfinished(j) == proc[j] \in {"notstarted", "running"}

\* context.CancelFunc: the first of cancel / deadline fixes ctx.Err().
cancel(e) == IF e = "none" THEN "canceled" ELSE e

\* comp.memoryBytes: declared in the compilation struct, assigned nowhere.
memoryBytes(j) == 0

\* IsCompiling
IsCompiling == active # 0

\* getBinaryBytes: memory bytes of the active job, else the final file.
getBinaryBytes ==
    IF active # 0 /\ memoryBytes(active) # 0
    THEN memoryBytes(active)
    ELSE finalFile

\* The default New gives to an unset Config.Timeout, in seconds.
DefaultTimeout == 5

\* Faulty variant: New keeps an unset timeout.
setDefaultTimeout_Keep(c) == c

\* New: if c.Timeout == 0 { c.Timeout = 5 * time.Second }
setDefaultTimeout(c) ==
    IF c.Timeout = 0 THEN [c EXCEPT !.Timeout = DefaultTimeout] ELSE c

\* A Config with no timeout, no environment overrides, no extra flags and an
\* empty output folder.  Strings that the code inspects are sequences of
\* one-character strings.
PlainConfig ==
    [Timeout |-> 0, Env |-> <<>>, CompilingArguments |-> <<>>,
     OutFolderRelativePath |-> <<>>]

\* No job has been requested on the instance.
InitJobs ==
    /\ callback \in BOOLEAN
    /\ active = 0
    /\ nJobs = 0
    /\ kind = [j \in Jobs |-> "none"]
    /\ pc = [j \in Jobs |-> "idle"]
    /\ proc = [j \in Jobs |-> "notstarted"]
    /\ ctxErr = [j \in Jobs |-> "none"]
    /\ cancelCalls = [j \in Jobs |-> 0]
    /\ ctxAtExit = [j \in Jobs |-> "none"]
    /\ out = [j \in Jobs |-> 0]
    /\ finalFile = 0
    /\ result = [j \in Jobs |-> "none"]
    /\ ret = [j \in Jobs |-> "none"]
    /\ cbCount = [j \in Jobs |-> 0]
    /\ cbArg = [j \in Jobs |-> "none"]
    /\ cancelRet = "none"
    /\ errOut = [j \in Jobs |-> 0]
    /\ mu = {}
    /\ readers = {}
    /\ section = [t \in Threads |-> "none"]

\* The instance New returns for a plain Config, before any call on it.
Init ==
    /\ InitJobs
    /\ config = setDefaultTimeout(PlainConfig)
    /\ call = [op |-> "New", given |-> PlainConfig.Timeout]
    /\ now = 0
    /\ tempFile = <<>>

\* Faulty variant: the active job is dropped without invoking its trigger.
cancelActive_NoCancel(a) == <<cancelCalls, ctxErr>>

\* Faulty variant: the jobs share one cancellation scope, so cancelling the
\* active job cancels every job created so far.
cancelActive_All(a) ==
    IF a # 0
    THEN <<[j \in Jobs |-> IF Created(j) THEN cancelCalls[j] + 1 ELSE cancelCalls[j]],
           [j \in Jobs |-> IF Created(j) THEN cancel(ctxErr[j]) ELSE ctxErr[j]]>>
    ELSE <<cancelCalls, ctxErr>>

\* if h.active != nil { h.active.cancel(); h.active = nil }: the cancel
\* invocations and the context errors after cancelling the active job a.
cancelActive(a) ==
    IF a # 0
    THEN <<[cancelCalls EXCEPT ![a] = @ + 1], [ctxErr EXCEPT ![a] = cancel(@)]>>
    ELSE <<cancelCalls, ctxErr>>

\* Faulty variant: CompileProgram waits for the job even with a callback.
earlyReturn_Blocking(k, cb) == "none"

\* Value the call hands to its caller before the job ends: with a callback
\* CompileProgram spawns the goroutine and returns nil at once.
earlyReturn(k, cb) == IF k = "disk" /\ cb THEN "nil" ELSE "none"

\* Entry section of CompileProgram (k = "disk") / CompileToMemory
\* (k = "memory"): cancel the active job, create the new job's context and
\* compilation, make it the active one; the asynchronous CompileProgram then
\* returns nil.
RequestSection(k) ==
    /\ nJobs < MaxJobs
    /\ nJobs' = nJobs + 1
    /\ kind' = [kind EXCEPT ![nJobs + 1] = k]
    /\ cancelCalls' = cancelActive(active)[1]
    /\ ctxErr' = cancelActive(active)[2]
    /\ active' = nJobs + 1
    /\ pc' = [pc EXCEPT ![nJobs + 1] = "start"]
    /\ ret' = [ret EXCEPT ![nJobs + 1] = earlyReturn(k, callback)]
    /\ UNCHANGED <<callback, proc, ctxAtExit, out, finalFile, result, cbCount,
                   cbArg, cancelRet, errOut, cvars>>

\* A request when the locked sections are taken as atomic.
Request(k) == RequestSection(k) /\ UNCHANGED lvars

\* Faulty variant (the behaviour the comment in compileSync describes as the
\* previous one): a killed process is reported as success.
compileSyncResult_KilledOk(p, renamed) ==
    IF p = "killed" THEN "nil"
    ELSE IF p # "ok" THEN "buildErr"
    ELSE IF renamed THEN "nil" ELSE "renameErr"

\* compileSync's result from the process outcome and the rename's outcome.
compileSyncResult(p, renamed) ==
    IF p # "ok" THEN "buildErr"
    ELSE IF renamed THEN "nil" ELSE "renameErr"

\* cleanupTempFile: the temp artifact is gone afterwards.
cleanupTempFile(o) == 0

\* renameOutputFile: on success the temp artifact becomes the final file.
\* The pair is <<temp artifact, final file>> after the call.
renameOutputFile(o, f, renamed) == IF renamed THEN <<0, o>> ELSE <<o, f>>

\* if err != nil after CombinedOutput: the process did not start, exited
\* with a non-zero status or was killed.
\* Faulty variant: a killed process counts as a finished build.
buildFailed_NotKilled(p) == p \notin {"ok", "killed"}

buildFailed(p) == p # "ok"

\* What CombinedOutput captured from the process of job j: the diagnostics of
\* a compiler that exited with a non-zero status, nothing otherwise (the
\* binary goes to the temp file, a killed or unstarted compiler prints nothing).
combinedOutput(j, p) == IF p = "failed" THEN j ELSE 0

\* if len(output) > 0 { errMsg += " " + string(output) }: the output the
\* text of compileSync's error carries.
errMsgOutput(output) == IF output # 0 THEN output ELSE 0

\* The process of job j has ended with outcome p, leaving bytes o, and the
\* thread blocked in CombinedOutput / Run goes on.  Disk: compileSync removes
\* the temp file and returns a build error, or renames the temp file to the
\* final one and returns the rename's result.  Memory: cmd.Run() returns.
AfterRun(j, p, o) ==
    /\ proc' = [proc EXCEPT ![j] = p]
    /\ ctxAtExit' = [ctxAtExit EXCEPT ![j] = ctxErr[j]]
    /\ IF kind[j] = "memory"
       THEN /\ out' = [out EXCEPT ![j] = o]
            /\ pc' = [pc EXCEPT ![j] = "cleanup"]
            /\ UNCHANGED <<finalFile, result, errOut>>
       ELSE /\ \E renamed \in BOOLEAN :
                 /\ result' = [result EXCEPT ![j] = compileSyncResult(p, renamed)]
                 /\ IF buildFailed(p)
                    THEN /\ out' = [out EXCEPT ![j] = cleanupTempFile(o)]
                         /\ errOut' = [errOut EXCEPT ![j] =
                                         errMsgOutput(combinedOutput(j, p))]
                         /\ UNCHANGED finalFile
                    ELSE /\ out' = [out EXCEPT ![j] =
                                      renameOutputFile(o, finalFile, renamed)[1]]
                         /\ finalFile' = renameOutputFile(o, finalFile, renamed)[2]
                         /\ UNCHANGED errOut
            /\ pc' = [pc EXCEPT ![j] = IF callback THEN "callback" ELSE "cleanup"]

\* exec.Cmd start inside CombinedOutput / Run: the process starts and the
\* thread waits for it.
StartProcess(j) ==
    /\ pc[j] = "start"
    /\ ctxErr[j] = "none"
    /\ pc' = [pc EXCEPT ![j] = "wait"]
    /\ proc' = [proc EXCEPT ![j] = "running"]
    /\ UNCHANGED <<callback, active, nJobs, kind, ctxErr, cancelCalls,
                   ctxAtExit, out, finalFile, result, ret, cbCount, cbArg,
                   cancelRet, errOut, cvars, lvars>>

\* exec.Cmd start fails: the context is already done (Start returns
\* ctx.Err()) or the invocation fails (e.g. missing executable).
StartFails(j) ==
    /\ pc[j] = "start"
    /\ AfterRun(j, "nostart", 0)
    /\ UNCHANGED <<callback, active, nJobs, kind, ctxErr, cancelCalls, ret,
                   cbCount, cbArg, cancelRet, cvars, lvars>>

\* The external process exits on its own: status 0 with its output written,
\* or a non-zero status.
ProcExit(j) ==
    /\ pc[j] = "wait"
    /\ \E p \in {"ok", "failed"} : AfterRun(j, p, IF p = "ok" THEN j ELSE 0)
    /\ UNCHANGED <<callback, active, nJobs, kind, ctxErr, cancelCalls, ret,
                   cbCount, cbArg, cancelRet, cvars, lvars>>

\* exec.CommandContext kills the process once its context is done; the
\* process may have left partial output.
ProcKilled(j) ==
    /\ pc[j] = "wait"
    /\ ctxErr[j] # "none"
    /\ \E partial \in {0, j} : AfterRun(j, "killed", partial)
    /\ UNCHANGED <<callback, active, nJobs, kind, ctxErr, cancelCalls, ret,
                   cbCount, cbArg, cancelRet, cvars, lvars>>

\* The context of job j can still be read: by exec (start, kill) while the
\* process has not ended, by CompileToMemory until its timeout check.
ctxRead(j) ==
    \/ pc[j] \in {"start", "wait"}
    \/ kind[j] = "memory" /\ pc[j] \in {"cleanup", "check"}

\* Faulty variant: the context of a job has no deadline (context.WithCancel
\* in place of context.WithTimeout).
Timeout_NoDeadline(j) == FALSE /\ UNCHANGED vars

\* The deadline of context.WithTimeout(.., h.config.Timeout) elapses.  The
\* timer is stopped only by cancel(), which the job itself never calls; the
\* model follows the timer for as long as the context is read.
Timeout(j) ==
    /\ ctxRead(j)
    /\ ctxErr[j] = "none"
    /\ ctxErr' = [ctxErr EXCEPT ![j] = "deadline"]
    /\ UNCHANGED <<callback, active, nJobs, kind, pc, proc, cancelCalls,
                   ctxAtExit, out, finalFile, result, ret, cbCount, cbArg,
                   cancelRet, errOut, cvars, lvars>>

\* The goroutine calls h.config.Callback(err).
CallbackBegin(j) ==
    /\ pc[j] = "callback"
    /\ cbCount' = [cbCount EXCEPT ![j] = @ + 1]
    /\ cbArg' = [cbArg EXCEPT ![j] = result[j]]
    /\ pc' = [pc EXCEPT ![j] = "incallback"]
    /\ UNCHANGED <<callback, active, nJobs, kind, proc, ctxErr, cancelCalls,
                   ctxAtExit, out, finalFile, result, ret, cancelRet, errOut,
                   cvars, lvars>>

\* The callback returns to the goroutine.
CallbackReturn(j) ==
    /\ pc[j] = "incallback"
    /\ pc' = [pc EXCEPT ![j] = "cleanup"]
    /\ UNCHANGED <<callback, active, nJobs, kind, proc, ctxErr, cancelCalls,
                   ctxAtExit, out, finalFile, result, ret, cbCount, cbArg,
                   cancelRet, errOut, cvars, lvars>>

\* Faulty variants of the clean-up: h.active is cleared unconditionally; the
\* clean-up is forgotten.
clearIfOwn_Always(a, j) == 0

clearIfOwn_Never(a, j) == a

\* if h.active == comp { h.active = nil }
clearIfOwn(a, j) == IF a = j THEN 0 ELSE a

\* The clean-up section and what follows it: the synchronous CompileProgram
\* returns err, the goroutine ends, CompileToMemory goes on to its checks.
CleanupSection(j) ==
    /\ pc[j] = "cleanup"
    /\ active' = clearIfOwn(active, j)
    /\ pc' = [pc EXCEPT ![j] = IF kind[j] = "memory" THEN "check" ELSE "done"]
    /\ ret' = IF kind[j] = "disk" /\ ~callback
              THEN [ret EXCEPT ![j] = result[j]]
              ELSE ret
    /\ UNCHANGED <<callback, nJobs, kind, proc, ctxErr, cancelCalls,
                   ctxAtExit, out, finalFile, result, cbCount, cbArg,
                   cancelRet, errOut, cvars>>

\* The clean-up when the locked sections are taken as atomic.
Cleanup(j) == CleanupSection(j) /\ UNCHANGED lvars

\* CompileToMemory's result from ctx.Err() and the error of cmd.Run().
memoryResult(e, p) ==
    IF e = "deadline" THEN "timeoutErr"
    ELSE IF p # "ok" THEN "buildErr"
    ELSE "bytes"

\* CompileToMemory after the clean-up: timeout check, error check, return.
MemoryReturn(j) ==
    /\ pc[j] = "check"
    /\ result' = [result EXCEPT ![j] = memoryResult(ctxErr[j], proc[j])]
    /\ ret' = [ret EXCEPT ![j] = memoryResult(ctxErr[j], proc[j])]
    /\ pc' = [pc EXCEPT ![j] = "done"]
    /\ UNCHANGED <<callback, active, nJobs, kind, proc, ctxErr, cancelCalls,
                   ctxAtExit, out, finalFile, cbCount, cbArg, cancelRet,
                   errOut, cvars, lvars>>

\* Bytes handed back by CompileToMemory (wasmBuffer.Bytes() on success).
returnedBytes(j) == IF ret[j] = "bytes" THEN out[j] ELSE 0

\* Faulty variant: Cancel reports an error when nothing is active.
cancelResult_ErrWhenIdle(a) == IF a = 0 THEN "err" ELSE "nil"

\* Error value Cancel returns when h.active was a.
cancelResult(a) == "nil"

\* Cancel: cancel and clear the active job, if any; return nil.
CancelSection ==
    /\ cancelCalls' = cancelActive(active)[1]
    /\ ctxErr' = cancelActive(active)[2]
    /\ active' = 0
    /\ cancelRet' = cancelResult(active)
    /\ UNCHANGED <<callback, nJobs, kind, pc, proc, ctxAtExit, out,
                   finalFile, result, ret, cbCount, cbArg, errOut, cvars>>

\* Faulty variant: Cancel signals the active job but keeps it in h.active.
Cancel_NoClear ==
    /\ cancelCalls' = cancelActive(active)[1]
    /\ ctxErr' = cancelActive(active)[2]
    /\ cancelRet' = "nil"
    /\ UNCHANGED <<callback, active, nJobs, kind, pc, proc, ctxAtExit, out,
                   finalFile, result, ret, cbCount, cbArg, errOut, cvars, lvars>>

\* A call of Cancel when the locked sections are taken as atomic.
Cancel == CancelSection /\ UNCHANGED lvars

Next ==
    \/ \E k \in {"disk", "memory"} : Request(k)
    \/ \E j \in Jobs : StartProcess(j)
    \/ \E j \in Jobs : StartFails(j)
    \/ \E j \in Jobs : ProcExit(j)
    \/ \E j \in Jobs : ProcKilled(j)
    \/ \E j \in Jobs : Timeout(j)
    \/ \E j \in Jobs : CallbackBegin(j)
    \/ \E j \in Jobs : CallbackReturn(j)
    \/ \E j \in Jobs : Cleanup(j)
    \/ \E j \in Jobs : MemoryReturn(j)
    \/ Cancel

Spec == Init /\ [][Next]_vars

\* The steps of job j that happen once they can: the threads are scheduled
\* (start of the process, call of the callback, clean-up, return), the timer
\* of context.WithTimeout fires, and a process whose context is done ends
\* (exec.CommandContext kills it).  Nothing makes a process end by itself,
\* a callback return, or a caller call Cancel or issue a request.
Fairness ==
    \A j \in Jobs :
        /\ WF_vars(StartProcess(j) \/ StartFails(j))
        /\ WF_vars(Timeout(j))
        /\ WF_vars(ProcKilled(j))
        /\ WF_vars(CallbackBegin(j))
        /\ WF_vars(Cleanup(j))
        /\ WF_vars(MemoryReturn(j))

SpecLive == Spec /\ Fairness

-----------------------------------------------------------------------------
(***************************************************************************)
(* Construction and process launch: what New makes of the Config, and the  *)
(* timeout and environment the two strategies give to their process.       *)
(***************************************************************************)

\* Config.Timeout values the caller sets (seconds): 0..MaxTimeout and the
\* default itself.
MaxTimeout == 3

\* Number of entries of Config.Env.
MaxEnv == 2

Timeouts == (0..MaxTimeout) \cup {DefaultTimeout}

EnvEntries == {"GOOS=js", "GOARCH=wasm"}

Envs == UNION {[1..n -> EnvEntries] : n \in 0..MaxEnv}

\* os.Environ(): the environment of the calling process.
osEnviron == <<"PATH=/usr/bin">>

\* The environment of the process a strategy launches.  compileSync sets
\* cmd.Env = append(os.Environ(), h.config.Env...) when there are overrides
\* and leaves it nil (the process inherits os.Environ()) otherwise;
\* CompileToMemory sets cmd.Env = os.Environ().
launchEnv(k, env) ==
    IF k = "disk"
    THEN IF Len(env) > 0 THEN osEnviron \o env ELSE osEnviron
    ELSE osEnviron

\* context.WithTimeout(context.Background(), h.config.Timeout): the duration
\* that bounds the job.
launchTimeout(c) == c.Timeout

\* New(c): the default timeout is written into the Config h.config refers to.
New ==
    /\ call.op = "none"
    /\ config' = setDefaultTimeout(config)
    /\ call' = [op |-> "New", given |-> config.Timeout]
    /\ UNCHANGED <<now, tempFile, jvars, lvars>>

\* CompileProgram (k = "disk") / CompileToMemory (k = "memory") up to the
\* start of the external process: its context and its environment.
Launch(k) ==
    /\ call.op # "none"
    /\ call' = [op |-> "launch", kind |-> k,
                env |-> launchEnv(k, config.Env),
                timeout |-> launchTimeout(config)]
    /\ UNCHANGED <<config, now, tempFile, jvars, lvars>>

\* Any Config the caller may hand to New.
InitConfig ==
    /\ InitJobs
    /\ config \in [Timeout : Timeouts, Env : Envs,
                   CompilingArguments : {<<>>}, OutFolderRelativePath : {<<>>}]
    /\ call = [op |-> "none"]
    /\ now = 0
    /\ tempFile = <<>>

NextConfig ==
    \/ New
    \/ \E k \in {"disk", "memory"} : Launch(k)

SpecConfig == InitConfig /\ [][NextConfig]_vars

-----------------------------------------------------------------------------
(***************************************************************************)
(* buildArguments.  A string is a sequence of one-character strings, an    *)
(* argument list a sequence of strings.                                    *)
(***************************************************************************)

\* Length of the list h.config.CompilingArguments() returns.
MaxFlags == 3

Build == <<"b", "u", "i", "l", "d">>

DashX == <<"-", "X">>

DashO == <<"-", "o">>

LdflagsPrefix == <<"-", "l", "d", "f", "l", "a", "g", "s", "=">>

DevPrefix == <<"/", "d", "e", "v", "/">>

\* h.config.MainInputFileRelativePath
MainInput == <<"m", ".", "g", "o">>

\* A key=value definition, and the flags the caller passes: the bare "-X",
\* "-X k=v" in one token, the value token "k=v", the ordinary flag "-v".
KeyValues == {<<"k", "=", "v">>}

FlagTokens ==
    {DashX, <<"-", "v">>} \cup KeyValues \cup {DashX \o <<" ">> \o kv : kv \in KeyValues}

FlagLists == UNION {[1..n -> FlagTokens] : n \in 0..MaxFlags}

\* Config.OutFolderRelativePath: "", "w", "w/".
OutFolders == {<<>>, <<"w">>, <<"w", "/">>}

\* Destinations: the relative "a" and "d/a", the absolute "/t/a", the
\* pseudo-path "/dev/stdout" of CompileToMemory.
Destinations ==
    {<<"a">>, <<"d", "/", "a">>, <<"/", "t", "/", "a">>,
     DevPrefix \o <<"s", "t", "d", "o", "u", "t">>}

\* strings.HasPrefix
HasPrefix(s, prefix) ==
    Len(s) >= Len(prefix) /\ SubSeq(s, 1, Len(prefix)) = prefix

\* strings.Contains(s, c) for a one-character c
Contains(s, c) == \E i \in 1..Len(s) : s[i] = c

\* strings.Join
RECURSIVE stringsJoin(_, _)
stringsJoin(elems, sep) ==
    IF elems = <<>> THEN <<>>
    ELSE IF Len(elems) = 1 THEN Head(elems)
    ELSE Head(elems) \o sep \o stringsJoin(Tail(elems), sep)

\* strings.Split(s, c) for a one-character c
RECURSIVE stringsSplit(_, _)
stringsSplit(s, c) ==
    IF s = <<>> THEN << <<>> >>
    ELSE LET rest == stringsSplit(Tail(s), c)
         IN  IF Head(s) = c
             THEN << <<>> >> \o rest
             ELSE << <<Head(s)>> \o Head(rest) >> \o Tail(rest)

\* Faulty variant: a bare "-X" does not take the token after it.
RECURSIVE collectFlags_NoPair(_, _, _, _)
collectFlags_NoPair(args, i, buildArgs, ldFlags) ==
    IF i > Len(args) THEN <<buildArgs, ldFlags>>
    ELSE IF HasPrefix(args[i], DashX)
         THEN collectFlags_NoPair(args, i + 1, buildArgs, Append(ldFlags, args[i]))
         ELSE collectFlags_NoPair(args, i + 1, Append(buildArgs, args[i]), ldFlags)

\* The loop of buildArguments over args from index i (1-based) on: the pair
\* <<buildArgs, ldFlags>> when the loop ends.
RECURSIVE collectFlags(_, _, _, _)
collectFlags(args, i, buildArgs, ldFlags) ==
    IF i > Len(args) THEN <<buildArgs, ldFlags>>
    ELSE IF HasPrefix(args[i], DashX)
         THEN IF args[i] = DashX /\ i + 1 <= Len(args)
              THEN collectFlags(args, i + 2, buildArgs,
                                ldFlags \o <<args[i], args[i + 1]>>)
              ELSE IF Contains(args[i], "=")
              THEN collectFlags(args, i + 1, buildArgs, Append(ldFlags, args[i]))
              ELSE collectFlags(args, i + 1, buildArgs, Append(ldFlags, args[i]))
         ELSE collectFlags(args, i + 1, Append(buildArgs, args[i]), ldFlags)

\* Faulty variant: one "-ldflags=" argument per link flag.
ldflagsArgument_PerFlag(ldFlags) ==
    [i \in 1..Len(ldFlags) |-> LdflagsPrefix \o ldFlags[i]]

\* if len(ldFlags) > 0: the single "-ldflags=" argument, as a list.
ldflagsArgument(ldFlags) ==
    IF Len(ldFlags) > 0
    THEN << LdflagsPrefix \o stringsJoin(ldFlags, <<" ">>) >>
    ELSE <<>>

Dot == <<".">>

DotDot == <<".", ".">>

\* path.IsAbs
pathIsAbs(p) == Len(p) > 0 /\ p[1] = "/"

\* path.Clean on the components of a path: empty and "." components go, a
\* ".." removes the component before it (at the root it goes itself, at the
\* start of a relative path it stays).
RECURSIVE cleanComponents(_, _, _)
cleanComponents(comps, kept, rooted) ==
    IF comps = <<>> THEN kept
    ELSE LET c == Head(comps)
             rest == Tail(comps)
         IN  IF c = <<>> \/ c = Dot
             THEN cleanComponents(rest, kept, rooted)
             ELSE IF c = DotDot
             THEN IF kept # <<>> /\ kept[Len(kept)] # DotDot
                  THEN cleanComponents(rest, SubSeq(kept, 1, Len(kept) - 1), rooted)
                  ELSE IF rooted
                  THEN cleanComponents(rest, kept, rooted)
                  ELSE cleanComponents(rest, Append(kept, c), rooted)
             ELSE cleanComponents(rest, Append(kept, c), rooted)

\* path.Clean
pathClean(p) ==
    IF p = <<>> THEN Dot
    ELSE LET rooted == pathIsAbs(p)
             body == stringsJoin(cleanComponents(stringsSplit(p, "/"), <<>>, rooted),
                                 <<"/">>)
         IN  IF rooted THEN <<"/">> \o body
             ELSE IF body = <<>> THEN Dot ELSE body

\* path.Join(a, b): the non-empty elements joined by "/" and cleaned; ""
\* when both are empty.
pathJoin(a, b) ==
    LET elems == SelectSeq(<<a, b>>, LAMBDA e : e # <<>>)
    IN  IF elems = <<>> THEN <<>> ELSE pathClean(stringsJoin(elems, <<"/">>))

\* Faulty variant: only the "/dev/" pseudo-paths are used verbatim.
outputPath_OnlyDev(folder, tempFileName) ==
    IF HasPrefix(tempFileName, DevPrefix)
    THEN tempFileName
    ELSE pathJoin(folder, tempFileName)

\* The output path logic of buildArguments.
outputPath(folder, tempFileName) ==
    IF pathIsAbs(tempFileName) \/ HasPrefix(tempFileName, DevPrefix)
    THEN tempFileName
    ELSE pathJoin(folder, tempFileName)

\* buildArguments(tempFileName) on an instance whose Config is c.
buildArguments(c, tempFileName) ==
    LET collected == collectFlags(c.CompilingArguments, 1, <<Build>>, <<>>)
    IN  collected[1] \o ldflagsArgument(collected[2])
            \o <<DashO, outputPath(c.OutFolderRelativePath, tempFileName), MainInput>>

\* A call h.buildArguments(d).
BuildArgumentsCall(d) ==
    /\ call.op # "none"
    /\ call' = [op |-> "buildArguments", tempFileName |-> d,
                args |-> buildArguments(config, d)]
    /\ UNCHANGED <<config, now, tempFile, jvars, lvars>>

\* Any extra-flags list and output folder in the Config of the instance.
InitArgs ==
    /\ InitJobs
    /\ config \in [Timeout : {DefaultTimeout}, Env : {<<>>},
                   CompilingArguments : FlagLists,
                   OutFolderRelativePath : OutFolders]
    /\ call = [op |-> "New", given |-> DefaultTimeout]
    /\ now = 0
    /\ tempFile = <<>>

NextArgs == \E d \in Destinations : BuildArgumentsCall(d)

SpecArgs == InitArgs /\ [][NextArgs]_vars

-----------------------------------------------------------------------------
(***************************************************************************)
(* BinarySizer.BinarySize.  The byte count n is below 2^53, so float64(n)  *)
(* and its quotient by a power of two are exact, and "%.1f" rounds the     *)
(* exact quotient to the nearest tenth, a tie to the even digit.  The      *)
(* arithmetic below stays within 32 bits.                                  *)
(***************************************************************************)

KB == 1024

MB == 1024 * 1024

GB == 1024 * 1024 * 1024

\* The byte counts tried lie around the twentieths k/20 of each unit, for k in
\* 0..MaxTwentieths.
MaxTwentieths == 24

Sizes ==
    {n \in {(u \div 1024) * ((1024 * k) \div 20) + e :
                u \in {KB, MB, GB}, k \in 0..MaxTwentieths, e \in {-1, 0, 1}} :
        n >= 0}

Digits == <<"0", "1", "2", "3", "4", "5", "6", "7", "8", "9">>

\* The decimal digits of a natural number.
RECURSIVE decimal(_)
decimal(n) ==
    IF n < 10 THEN <<Digits[n + 1]>>
    ELSE decimal(n \div 10) \o <<Digits[(n % 10) + 1]>>

\* Faulty variant: the thresholds are exclusive.
sizeUnit_Exclusive(n) == IF n > GB THEN GB ELSE IF n > MB THEN MB ELSE KB

\* The unit BinarySize selects: size >= GB, else size >= MB, else KB.
sizeUnit(n) == IF n >= GB THEN GB ELSE IF n >= MB THEN MB ELSE KB

unitName(u) ==
    IF u = GB THEN <<"G", "B">> ELSE IF u = MB THEN <<"M", "B">> ELSE <<"K", "B">>

\* size/unit in tenths as "%.1f" rounds it.  With n = q*unit + r,
\* unit = 1024*m and r = a*m + b: 10*r = w*m + f for w = 10*a + (10*b) div m
\* and f = (10*b) mod m, so the first decimal is w div 1024 and what is left
\* of 10*r is (w mod 1024)*m + f, to be compared with unit/2.
sizeTenths(n, unit) ==
    LET q == n \div unit
        r == n % unit
        m == unit \div 1024
        a == r \div m
        b == r % m
        w == 10 * a + ((10 * b) \div m)
        f == (10 * b) % m
        down == 10 * q + (w \div 1024)
        left == (w % 1024) * m + f
        half == unit \div 2
    IN  IF left > half \/ (left = half /\ down % 2 = 1) THEN down + 1 ELSE down

\* fmt.Sprintf("%.1f XB", ...) of a magnitude given in tenths.
sizeText(tenths, unit) ==
    decimal(tenths \div 10) \o <<".">> \o decimal(tenths % 10) \o <<" ">>
        \o unitName(unit)

ZeroKB == <<"0", ".", "0", " ", "K", "B">>

\* BinarySize for an accessor g ("nil" or "set") that returns n bytes.
BinarySize(g, n) ==
    IF g = "nil" THEN ZeroKB
    ELSE IF n = 0 THEN ZeroKB
    ELSE sizeText(sizeTenths(n, sizeUnit(n)), sizeUnit(n))

\* A call of BinarySize.
BinarySizeCall(g, n) ==
    /\ call.op # "none"
    /\ call' = [op |-> "BinarySize", getBinary |-> g, len |-> n,
                text |-> BinarySize(g, n)]
    /\ UNCHANGED <<config, now, tempFile, jvars, lvars>>

\* A nil accessor, or an accessor that returns n bytes.
SizeInputs == {<<"nil", 0>>} \cup {<<"set", n>> : n \in Sizes}

NextSize == \E in \in SizeInputs : BinarySizeCall(in[1], in[2])

SpecSize == Init /\ [][NextSize]_vars

-----------------------------------------------------------------------------
(***************************************************************************)
(* The names of the temp artifacts of CompileProgram.                      *)
(***************************************************************************)

\* Readings of the wall clock: 0..MaxClock.
MaxClock == 4

\* Number of CompileProgram requests that take a name.
MaxNames == 3

\* h.config.OutName and h.config.Extension
OutName == <<"a", "p", "p">>

Extension == <<".", "w", "a", "s", "m">>

\* fmt.Sprintf("%s_temp_%d%s", OutName, time.Now().UnixNano(), Extension)
tempFileName(t) ==
    OutName \o <<"_", "t", "e", "m", "p", "_">> \o decimal(t) \o Extension

\* The wall clock moves on.
Tick ==
    /\ now < MaxClock
    /\ now' = now + 1
    /\ UNCHANGED <<config, call, tempFile, jvars, lvars>>

\* The entry section of CompileProgram names the temp artifact of the new
\* job after the clock reading at that instant.
NameTempFile ==
    /\ Len(tempFile) < MaxNames
    /\ tempFile' = Append(tempFile, tempFileName(now))
    /\ UNCHANGED <<config, call, now, jvars, lvars>>

NextNames == Tick \/ NameTempFile

SpecNames == Init /\ [][NextNames]_vars

-----------------------------------------------------------------------------
(***************************************************************************)
(* The mutual-exclusion guard h.mu (a sync.RWMutex).                       *)
(*                                                                         *)
(* SpecLock is Spec with every locked section split into the step that     *)
(* takes h.mu and the step that runs the section and releases h.mu.  A     *)
(* thread is inside section[t] from the one to the other.  The callback    *)
(* of a job may call Cancel, IsCompiling and CompileProgram on the         *)
(* instance that runs it.                                                  *)
(***************************************************************************)

\* Thread t is where the program calls an operation of the instance: a
\* caller outside the jobs, or the callback of job t.
AtCallSite(t) ==
    /\ section[t] = "none"
    /\ t \in Jobs => pc[t] = "incallback"

\* The operations that take h.mu for writing at their head.
Writers == {"CompileProgram", "CompileToMemory", "Cancel"}

\* Kind of job a request creates.
jobKind(o) == IF o = "CompileProgram" THEN "disk" ELSE "memory"

\* h.mu.Lock() at the head of CompileProgram, CompileToMemory or Cancel:
\* waits until nobody holds h.mu.  A callback runs only when the instance
\* has one, and then CompileProgram is the request that does not wait.
Lock(t, o) ==
    /\ AtCallSite(t)
    /\ o \in {"CompileProgram", "CompileToMemory"} => nJobs < MaxJobs
    /\ t \in Jobs => o # "CompileToMemory"
    /\ mu = {}
    /\ readers = {}
    /\ mu' = {t}
    /\ section' = [section EXCEPT ![t] = o]
    /\ UNCHANGED <<jvars, cvars, readers>>

\* Faulty variant: the entry section releases h.mu only when the whole
\* call returns (a deferred Unlock).
unlock_Deferred(m, t) == m

\* h.mu.Unlock() by thread t.
unlock(m, t) == m \ {t}

\* The entry section of a request up to its h.mu.Unlock(); the thread of the
\* new job goes on to the process outside the section.
EntryUnlock(t) ==
    /\ t \in mu
    /\ section[t] \in {"CompileProgram", "CompileToMemory"}
    /\ RequestSection(jobKind(section[t]))
    /\ mu' = unlock(mu, t)
    /\ section' = [section EXCEPT ![t] = "none"]
    /\ UNCHANGED readers

\* Cancel between h.mu.Lock() and the deferred h.mu.Unlock().
CancelUnlock(t) ==
    /\ t \in mu
    /\ section[t] = "Cancel"
    /\ CancelSection
    /\ mu' = mu \ {t}
    /\ section' = [section EXCEPT ![t] = "none"]
    /\ UNCHANGED readers

\* h.mu.RLock() at the head of IsCompiling: waits while a writer holds h.mu.
RLock(t) ==
    /\ AtCallSite(t)
    /\ mu = {}
    /\ readers' = readers \cup {t}
    /\ section' = [section EXCEPT ![t] = "IsCompiling"]
    /\ UNCHANGED <<jvars, cvars, mu>>

\* IsCompiling reads h.active and releases h.mu.
RUnlock(t) ==
    /\ t \in readers
    /\ section[t] = "IsCompiling"
    /\ readers' = readers \ {t}
    /\ section' = [section EXCEPT ![t] = "none"]
    /\ call' = [op |-> "IsCompiling", value |-> IsCompiling]
    /\ UNCHANGED <<jvars, config, now, tempFile, mu>>

\* h.mu.Lock() before the clean-up of job j.
CleanupLock(j) ==
    /\ pc[j] = "cleanup"
    /\ section[j] = "none"
    /\ mu = {}
    /\ readers = {}
    /\ mu' = {j}
    /\ section' = [section EXCEPT ![j] = "cleanup"]
    /\ UNCHANGED <<jvars, cvars, readers>>

\* The clean-up of job j and its h.mu.Unlock().
CleanupUnlock(j) ==
    /\ j \in mu
    /\ section[j] = "cleanup"
    /\ CleanupSection(j)
    /\ mu' = mu \ {j}
    /\ section' = [section EXCEPT ![j] = "none"]
    /\ UNCHANGED readers

NextLock ==
    \/ \E t \in Threads, o \in Writers : Lock(t, o)
    \/ \E t \in Threads : EntryUnlock(t)
    \/ \E t \in Threads : CancelUnlock(t)
    \/ \E t \in Threads : RLock(t)
    \/ \E t \in Threads : RUnlock(t)
    \/ \E j \in Jobs : CleanupLock(j)
    \/ \E j \in Jobs : CleanupUnlock(j)
    \/ \E j \in Jobs : StartProcess(j)
    \/ \E j \in Jobs : StartFails(j)
    \/ \E j \in Jobs : ProcExit(j)
    \/ \E j \in Jobs : ProcKilled(j)
    \/ \E j \in Jobs : Timeout(j)
    \/ \E j \in Jobs : CallbackBegin(j)
    \/ \E j \in Jobs : CallbackReturn(j)
    \/ \E j \in Jobs : MemoryReturn(j)

SpecLock == Init /\ [][NextLock]_vars

-----------------------------------------------------------------------------
\* C1: in every reachable state, every job whose external process has not
\* ended and whose cancellation trigger has not been invoked is the job
\* h.active refers to; hence there is at most one such job.
C1_SingleActive ==
    \A j \in Jobs :
        (Created(j) /\ Unfinished(j) /\ cancelCalls[j] = 0) => active = j

\* Two processes run at once: the superseded one (cancelled, not exited) and
\* the active one.
C1_Witness ==
    \E i, j \in Jobs :
        /\ i # j
        /\ proc[i] = "running" /\ cancelCalls[i] = 1
        /\ proc[j] = "running" /\ cancelCalls[j] = 0
        /\ active = j

\* C2: a request that finds an earlier job active invokes that job's
\* cancellation trigger and makes the new job the active one in the same step,
\* leaving the earlier process as it is; afterwards h.active is the newest job
\* or nil, and it is nil once the newest job has passed its clean-up or has
\* been cancelled, whatever the earlier process does.
C2_Supersede ==
    /\ [](/\ active \in {0, nJobs}
          /\ (nJobs > 0 /\ (pc[nJobs] \in {"check", "done"} \/ cancelCalls[nJobs] > 0))
                => ~IsCompiling)
    /\ [][(nJobs' = nJobs + 1 /\ active # 0) =>
              /\ cancelCalls'[active] = cancelCalls[active] + 1
              /\ ctxErr'[active] # "none"
              /\ active' = nJobs'
              /\ proc' = proc
              /\ pc'[active] = pc[active]]_vars

\* The newer job has finished and h.active is nil while the superseded
\* job's process is still running.
C2_Witness ==
    /\ nJobs = 2
    /\ proc[1] = "running" /\ cancelCalls[1] = 1
    /\ pc[2] = "done"
    /\ ~IsCompiling

\* C3: Cancel with an active job invokes that job's cancellation trigger and
\* sets h.active to nil in one step that leaves every process and thread where
\* it is; h.active then stays nil until a request is accepted.
C3_CancelClears ==
    /\ [][(Cancel /\ active # 0) =>
              /\ cancelCalls'[active] = cancelCalls[active] + 1
              /\ ctxErr'[active] # "none"
              /\ active' = 0
              /\ proc' = proc /\ pc' = pc]_vars
    /\ [][(active = 0 /\ active' # 0) => nJobs' = nJobs + 1]_vars

\* The newest job was cancelled by Cancel: IsCompiling is false although its
\* process is still running.
C3_Witness ==
    /\ nJobs > 0
    /\ cancelCalls[nJobs] = 1
    /\ proc[nJobs] = "running"
    /\ cancelRet = "nil"
    /\ ~IsCompiling

\* C4: Cancel always returns nil and leaves h.active nil; called with no
\* active job it changes nothing of the orchestrator's state (no job is
\* signalled), so a second Cancel in a row changes nothing.
C4_CancelIdempotent ==
    /\ [](cancelRet \in {"none", "nil"})
    /\ [][Cancel =>
              /\ cancelRet' = "nil"
              /\ active' = 0
              /\ active = 0 =>
                    UNCHANGED <<callback, active, nJobs, kind, pc, proc, ctxErr,
                                cancelCalls, ctxAtExit, out, finalFile, result,
                                ret, cbCount, cbArg, errOut>>]_vars

\* Cancel has returned nil although no job ever existed.
C4_Witness ==
    /\ cancelRet = "nil"
    /\ nJobs = 0
    /\ active = 0

\* C5: a disk job whose process was killed (by Cancel, by a superseding
\* request or by the timeout) has an error as its terminal result, as the
\* value the synchronous call returns and as the argument of the callback.
C5_KilledIsError ==
    \A j \in Jobs :
        (kind[j] = "disk" /\ proc[j] = "killed") =>
            /\ result[j] \in Errors
            /\ (pc[j] = "done" /\ ~callback) => ret[j] \in Errors
            /\ cbCount[j] > 0 => cbArg[j] \in Errors

\* A disk job killed by its timeout has finished.
C5_Witness ==
    \E j \in Jobs :
        /\ kind[j] = "disk"
        /\ proc[j] = "killed"
        /\ ctxErr[j] = "deadline"
        /\ pc[j] = "done"
        /\ result[j] = "buildErr"

\* C6: a compilation (disk or memory) whose deadline elapsed before its
\* process ended has the timeout-kind error as its terminal result, never
\* success and never the generic build-failure kind.
C6_TimeoutKind ==
    \A j \in Jobs :
        (~Unfinished(j) /\ ctxAtExit[j] = "deadline" /\ result[j] # "none")
            => result[j] = "timeoutErr"

\* C7: with a callback configured CompileProgram has returned nil as soon as
\* the job exists; the callback is invoked at most once, exactly once by the
\* time the goroutine ends, with the job's terminal result; and until the
\* goroutine ends (so also inside the callback) the job stays the active one
\* unless its cancellation trigger was invoked.
C7_AsyncCallback ==
    \A j \in Jobs :
        (IsAsync(j) /\ Created(j)) =>
            /\ ret[j] = "nil"
            /\ cbCount[j] <= 1
            /\ cbCount[j] = 1 <=> pc[j] \in {"incallback", "cleanup", "done"}
            /\ cbCount[j] = 1 => (cbArg[j] = result[j] /\ result[j] # "none")
            /\ (pc[j] # "done" /\ cancelCalls[j] = 0) => active = j
            /\ pc[j] = "done" => active # j

\* Inside the callback of a job that was not cancelled: IsCompiling is true,
\* the caller has its nil, the callback has the result.
C7_Witness ==
    \E j \in Jobs :
        /\ IsAsync(j)
        /\ pc[j] = "incallback"
        /\ cancelCalls[j] = 0
        /\ active = j
        /\ ret[j] = "nil"
        /\ cbArg[j] \in Errors

\* C8: the clean-up of a finishing job sets h.active to nil if it refers to
\* this job and leaves it alone otherwise; a job that has passed its clean-up
\* is never the active one.
C8_ClearOnlyOwn ==
    /\ [](\A j \in Jobs : pc[j] \in {"check", "done"} => active # j)
    /\ [][\A j \in Jobs :
             (pc[j] = "cleanup" /\ pc'[j] # "cleanup") =>
                 active' = (IF active = j THEN 0 ELSE active)]_vars

\* The older, superseded job has finished and the newer one is still active.
C8_Witness ==
    /\ nJobs = 2
    /\ pc[1] = "done" /\ cancelCalls[1] = 1
    /\ pc[2] = "wait"
    /\ active = 2

\* C9: CompileToMemory returns the timeout-kind error if and only if the
\* deadline elapsed before the process ended; a job whose process was killed
\* after a cancellation returns the build-failure kind; bytes are returned
\* only when the process exited successfully.
C9_TimeoutIff ==
    \A j \in Jobs :
        (kind[j] = "memory" /\ pc[j] = "done") =>
            /\ ret[j] = "timeoutErr" <=> ctxAtExit[j] = "deadline"
            /\ (proc[j] = "killed" /\ ctxAtExit[j] = "canceled") => ret[j] = "buildErr"
            /\ ret[j] = "bytes" => proc[j] = "ok"

\* C10: after a successful CompileToMemory and until a later compilation is
\* requested, getBinaryBytes returns the bytes that call returned (so
\* BinarySize is not "0.0 KB").
C10_MemoryBytesQueryable ==
    \A j \in Jobs :
        (kind[j] = "memory" /\ ret[j] = "bytes" /\ nJobs = j) =>
            /\ returnedBytes(j) # 0
            /\ getBinaryBytes = returnedBytes(j)

\* C11: whichever strategy launches the process, its environment holds the
\* inherited environment and every override of Config.Env.
C11_EnvOverrides ==
    call.op = "launch" =>
        /\ \A i \in 1..Len(osEnviron) :
               \E k \in 1..Len(call.env) : call.env[k] = osEnviron[i]
        /\ \A i \in 1..Len(config.Env) :
               \E k \in 1..Len(call.env) : call.env[k] = config.Env[i]

\* C15: once New has run the timeout in h.config is not zero: it is the
\* default when the caller left it unset and the caller's value otherwise;
\* every process launch bounds its job by exactly that duration.
C15_TimeoutNeverZero ==
    /\ call.op # "none" => config.Timeout # 0
    /\ call.op = "New" =>
          config.Timeout = (IF call.given = 0 THEN DefaultTimeout ELSE call.given)
    /\ call.op = "launch" => (call.timeout = config.Timeout /\ call.timeout # 0)

\* A CompileToMemory launch bounded by the default timeout.
C15_Witness ==
    /\ call.op = "launch"
    /\ call.kind = "memory"
    /\ call.timeout = DefaultTimeout

\* The token is a consolidated link-flags argument.
IsLdflags(tok) == HasPrefix(tok, LdflagsPrefix)

\* Some flag of the list starts with "-X".
AnyX(flags) == \E i \in 1..Len(flags) : HasPrefix(flags[i], DashX)

\* The flags that do not start with "-X", in order.
NonXFlags(flags) == SelectSeq(flags, LAMBDA f : ~HasPrefix(f, DashX))

\* Flag i is the value token that the bare "-X" before it takes.
RECURSIVE IsValueOfX(_, _)
IsValueOfX(flags, i) ==
    i > 1 /\ flags[i - 1] = DashX /\ ~IsValueOfX(flags, i - 1)

\* The flags from index i on that neither start with "-X" nor are the value
\* token of a bare "-X", in order.
RECURSIVE OrdinaryFrom(_, _)
OrdinaryFrom(flags, i) ==
    IF i > Len(flags) THEN <<>>
    ELSE (IF ~HasPrefix(flags[i], DashX) /\ ~IsValueOfX(flags, i)
          THEN <<flags[i]>> ELSE <<>>) \o OrdinaryFrom(flags, i + 1)

\* The list a is: "build", the flags in passed, one "-ldflags=" token if
\* hasLink and none otherwise, "-o", a destination, the entry source path.
ArgumentForm(a, passed, hasLink) ==
    LET n == Len(passed)
        x == IF hasLink THEN 1 ELSE 0
    IN  /\ Len(a) = 1 + n + x + 3
        /\ a[1] = Build
        /\ SubSeq(a, 2, n + 1) = passed
        /\ Cardinality({i \in 1..Len(a) : IsLdflags(a[i])}) = x
        /\ hasLink => IsLdflags(a[n + 2])
        /\ a[Len(a) - 2] = DashO
        /\ a[Len(a)] = MainInput

\* C12 (as stated): buildArguments returns "build", every flag not starting
\* with "-X" in original order, exactly one "-ldflags=" token if some flag
\* starts with "-X" (none otherwise) after the ordinary flags, "-o", the
\* destination, the entry source path.
C12_ArgumentForm ==
    call.op = "buildArguments" =>
        ArgumentForm(call.args, NonXFlags(config.CompilingArguments),
                     AnyX(config.CompilingArguments))

\* C12 (amended): as above, where the flags passed through are those that
\* neither start with "-X" nor are the value token taken by a bare "-X"
\* right before them.
C12_ArgumentFormPairs ==
    call.op = "buildArguments" =>
        ArgumentForm(call.args, OrdinaryFrom(config.CompilingArguments, 1),
                     AnyX(config.CompilingArguments))

\* An ordinary flag followed by a "-X" pair: "build -v -ldflags=... -o d m".
C12_Witness ==
    /\ call.op = "buildArguments"
    /\ \E kv \in KeyValues :
          /\ config.CompilingArguments = << <<"-", "v">>, DashX, kv >>
          /\ SubSeq(call.args, 1, 3) =
                <<Build, <<"-", "v">>, LdflagsPrefix \o DashX \o <<" ">> \o kv>>
    /\ Len(call.args) = 6

\* C13: the flags ["-X", "k=v"] and ["-X k=v"] give the same argument list,
\* whose only flag argument is "-ldflags=-X k=v"; when the last flag is a bare
\* "-X" the link argument ends with that "-X".
C13_SplitInsensitive ==
    call.op = "buildArguments" =>
        LET flags == config.CompilingArguments
            a == call.args
        IN  /\ \A kv \in KeyValues :
                  LET split == <<DashX, kv>>
                      single == << DashX \o <<" ">> \o kv >>
                  IN  /\ flags \in {split, single} =>
                            /\ Len(a) = 5
                            /\ a[1] = Build
                            /\ a[2] = LdflagsPrefix \o DashX \o <<" ">> \o kv
                      /\ buildArguments([config EXCEPT !.CompilingArguments = split],
                                        call.tempFileName)
                            = buildArguments([config EXCEPT !.CompilingArguments = single],
                                             call.tempFileName)
            /\ (flags # <<>> /\ flags[Len(flags)] = DashX) =>
                  \E i \in 1..Len(a) :
                      /\ IsLdflags(a[i])
                      /\ SubSeq(a[i], Len(a[i]) - 1, Len(a[i])) = DashX
                      /\ \/ a[i] = LdflagsPrefix \o DashX
                         \/ a[i][Len(a[i]) - 2] = " "

\* The split form has been built into the single link argument.
C13_Witness ==
    /\ call.op = "buildArguments"
    /\ \E kv \in KeyValues :
          /\ config.CompilingArguments = <<DashX, kv>>
          /\ call.args[2] = LdflagsPrefix \o DashX \o <<" ">> \o kv

\* The destination d put behind the output folder.
Joined(folder, d) ==
    IF folder = <<>> THEN d
    ELSE IF folder[Len(folder)] = "/" THEN folder \o d
    ELSE folder \o <<"/">> \o d

\* C14: the token after "-o" is the destination itself when the destination
\* is absolute or starts with "/dev/", and the destination joined with the
\* output folder otherwise.
C14_Destination ==
    call.op = "buildArguments" =>
        LET a == call.args
            d == call.tempFileName
            o == a[Len(a) - 1]
        IN  /\ a[Len(a) - 2] = DashO
            /\ IF d[1] = "/" \/ HasPrefix(d, DevPrefix)
               THEN o = d
               ELSE o = Joined(config.OutFolderRelativePath, d)

\* A relative destination behind the folder "w/", and an absolute one.
C14_Witness ==
    /\ call.op = "buildArguments"
    /\ config.OutFolderRelativePath = <<"w", "/">>
    /\ call.tempFileName = <<"d", "/", "a">>
    /\ call.args[Len(call.args) - 1] = <<"w", "/", "d", "/", "a">>

\* The tenth d is within half a tenth of r/unit (r < unit): with
\* unit = 1024*m and r = a*m + b, 10*r - d*unit = m*(10*a - 1024*d) + 10*b.
Near(d, r, unit) ==
    LET m == unit \div 1024
        a == r \div m
        b == r % m
        z == 10 * a - 1024 * d
    IN  /\ z \in -522..512
        /\ m * z + 10 * b <= 512 * m
        /\ m * z + 10 * b >= -512 * m

C17_CancelBeforeStart ==
    \A i, j \in Jobs :
        (i < j /\ proc[j] # "notstarted") =>
            (cancelCalls[i] >= 1 \/ pc[i] \in {"check", "done"})

\* The second job's process runs while the first job, already signalled, has
\* not even started its own.
C17_Witness ==
    /\ nJobs = 2
    /\ pc[1] = "start" /\ cancelCalls[1] = 1
    /\ pc[2] = "wait" /\ proc[2] = "running"

\* C18: a job's cancellation trigger is invoked at most once, and only in a
\* step that finds the job active and leaves it not active; the context of a
\* job becomes done only by that invocation or by its own deadline, in a step
\* that moves no thread and no process, so nothing that happens to another
\* job cancels a job or shortens its deadline.
C18_IndependentScopes ==
    /\ [](\A j \in Jobs : cancelCalls[j] <= 1)
    /\ [][\A j \in Jobs :
             cancelCalls'[j] # cancelCalls[j] =>
                 /\ active = j
                 /\ active' # j
                 /\ cancelCalls'[j] = cancelCalls[j] + 1]_vars
    /\ [][\A j \in Jobs :
             ctxErr'[j] # ctxErr[j] =>
                 /\ ctxErr[j] = "none"
                 /\ \/ /\ ctxErr'[j] = "canceled"
                       /\ active = j
                       /\ cancelCalls'[j] = cancelCalls[j] + 1
                    \/ /\ ctxErr'[j] = "deadline"
                       /\ cancelCalls' = cancelCalls
                       /\ pc' = pc /\ proc' = proc /\ active' = active
                       /\ \A i \in Jobs \ {j} : ctxErr'[i] = ctxErr[i]]_vars

\* The older job was cancelled, killed and has finished; the newer job is
\* active, not cancelled, within its deadline, its process running.
C18_Witness ==
    /\ nJobs = 2
    /\ cancelCalls[1] = 1 /\ proc[1] = "killed" /\ pc[1] = "done"
    /\ active = 2 /\ cancelCalls[2] = 0 /\ ctxErr[2] = "none"
    /\ proc[2] = "running"

\* C19: a disk job whose process did not start, exited non-zero or was
\* killed has a build error that carries the captured output, its temp
\* artifact is gone and the final file is left as it was; only a job whose
\* process succeeded renames, and its result is nil exactly when the rename
\* put its artifact in place of the final file; so the final file never
\* comes from a job whose build failed.
C19_DiskOutcome ==
    /\ [](\A j \in Jobs :
             kind[j] = "disk" =>
                 /\ proc[j] \in {"nostart", "failed", "killed"} =>
                       /\ result[j] = "buildErr"
                       /\ errOut[j] = (IF proc[j] = "failed" THEN j ELSE 0)
                       /\ out[j] = 0
                 /\ proc[j] = "ok" => result[j] \in {"nil", "renameErr"}
                 /\ finalFile = j => (proc[j] = "ok" /\ result[j] = "nil"))
    /\ [][\A j \in Jobs :
             (kind[j] = "disk" /\ proc[j] \in {"notstarted", "running"}
                  /\ proc'[j] \notin {"notstarted", "running"}) =>
                 IF proc'[j] # "ok"
                 THEN /\ finalFile' = finalFile
                      /\ out'[j] = 0
                      /\ result'[j] = "buildErr"
                 ELSE \/ /\ result'[j] = "nil"
                         /\ finalFile' = j
                         /\ out'[j] = 0
                      \/ /\ result'[j] = "renameErr"
                         /\ finalFile' = finalFile
                         /\ out'[j] = j]_vars

\* A disk job whose compiler exited non-zero has finished with a build error
\* carrying the diagnostics; no temp artifact, no final file.
C19_Witness ==
    \E j \in Jobs :
        /\ kind[j] = "disk"
        /\ proc[j] = "failed"
        /\ pc[j] = "done"
        /\ result[j] = "buildErr"
        /\ errOut[j] = j
        /\ out[j] = 0
        /\ finalFile = 0

\* C20: the temp-artifact names of any two CompileProgram requests on the
\* instance differ.
C20_DistinctNames ==
    \A i, j \in 1..Len(tempFile) : i # j => tempFile[i] # tempFile[j]

\* C21: a disk job whose cancellation trigger has been invoked (by Cancel or
\* by a newer request) never afterwards renames its temp artifact onto the
\* final output path, and the final output of a newer job is never replaced
\* by that of an older job.
C21_NoLateRename ==
    /\ [][\A j \in Jobs :
             (kind[j] = "disk" /\ finalFile # j /\ finalFile' = j) =>
                 cancelCalls[j] = 0]_vars
    /\ [][\A i, j \in Jobs :
             (i < j /\ finalFile = j) => finalFile' # i]_vars

\* C24: a binary of at least one byte and less than 1024^2 bytes is rendered
\* in KB with a magnitude of at least 0.1, and "0.0 KB" is rendered only for
\* a nil accessor or an empty binary.
C24_MinimumKB ==
    call.op = "BinarySize" =>
        /\ (call.getBinary = "set" /\ call.len > 0 /\ call.len < 1024 * 1024) =>
              /\ Len(call.text) >= 6
              /\ SubSeq(call.text, Len(call.text) - 2, Len(call.text))
                     = <<" ", "K", "B">>
              /\ call.text # <<"0", ".", "0", " ", "K", "B">>
        /\ call.text = <<"0", ".", "0", " ", "K", "B">> =>
              (call.getBinary = "nil" \/ call.len = 0)

\* The steps that release h.mu.
Release ==
    \/ \E t \in Threads : EntryUnlock(t) \/ CancelUnlock(t) \/ RUnlock(t)
    \/ \E j \in Jobs : CleanupUnlock(j)

\* C22: h.mu is held only by a thread inside a locked section, never by a
\* thread that waits for its external process or runs callback code outside
\* a call on the instance; whoever holds it can finish its section and
\* release it at once, whatever the processes do; and when nobody holds it,
\* Cancel and IsCompiling (and a request, while requests are left) can take
\* it from any caller, the callback of a job included.
C22_GuardNotHeldWhileWaiting ==
    /\ Cardinality(mu) <= 1
    /\ mu # {} => readers = {}
    /\ \A t \in mu \cup readers : section[t] # "none"
    /\ \A j \in Jobs :
          /\ pc[j] \in {"start", "wait", "callback"} => j \notin mu \cup readers
          /\ (pc[j] = "incallback" /\ j \in mu \cup readers) =>
                section[j] \in {"Cancel", "IsCompiling", "CompileProgram"}
    /\ (mu # {} \/ readers # {}) => ENABLED Release
    /\ \A t \in Threads :
          (AtCallSite(t) /\ mu = {}) =>
              /\ ENABLED RLock(t)
              /\ readers = {} =>
                    /\ ENABLED Lock(t, "Cancel")
                    /\ nJobs < MaxJobs => ENABLED Lock(t, "CompileProgram")

\* While the process of one job runs, the callback of another job is inside
\* Cancel and holds h.mu.
C22_Witness ==
    \E j, k \in Jobs :
        /\ j # k
        /\ pc[k] = "wait"
        /\ proc[k] = "running"
        /\ pc[j] = "incallback"
        /\ section[j] = "Cancel"
        /\ mu = {j}

\* The terminal outcome of job j: the callback has been invoked
\* (asynchronous CompileProgram), or the call has returned.
Terminal(j) == IF IsAsync(j) THEN cbCount[j] >= 1 ELSE pc[j] = "done"

\* C23 (as stated): every accepted request reaches its terminal outcome, and
\* h.active is eventually nil for good (the requests of a behaviour are
\* finitely many, so there is always a last one).
C23_Terminates ==
    /\ \A j \in Jobs : Created(j) ~> Terminal(j)
    /\ <>[](active = 0)

\* C23 (amended): every accepted request reaches its terminal outcome, and
\* if every callback that is called returns, h.active is eventually nil for
\* good.
C23_TerminatesIfCallbackReturns ==
    /\ \A j \in Jobs : Created(j) ~> Terminal(j)
    /\ (\A j \in Jobs : (pc[j] = "incallback") ~> (pc[j] # "incallback"))
           => <>[](active = 0)

\* Every job has been requested and has ended, one of them with its process
\* killed at its deadline, and h.active is nil.
C23_Witness ==
    /\ nJobs = MaxJobs
    /\ \A j \in Jobs : pc[j] = "done"
    /\ \E j \in Jobs : proc[j] = "killed" /\ ctxAtExit[j] = "deadline"
    /\ active = 0
====
